---------------------------- MODULE Spec2Model ----------------------------
(* A model of src/src/axware/parser.py: the cell interpreter parse_time,   *)
(* the table reconstructor parse_axware_live_results and the command-line  *)
(* loop that calls it once per file.                                       *)
(*                                                                         *)
(* Text is a sequence of one-character strings.  Every Python value is a   *)
(* record tagged by its type: [none], [str], [int], [float], [tuple],      *)
(* [list], [dict], and [exc] for a raised exception.                       *)
EXTENDS Integers, Sequences, FiniteSets, TLC

VARIABLES
    \* parse_time, called on its own
    raw_value_arg,   \* the argument of a direct parse_time call
    pt_result,       \* what that call returned
    pt_pc,           \* "idle" | "call" | "done"
    \* __main__
    nfiles,          \* len(args.file)
    fidx,            \* position of fpath in args.file (1-based)
    written,         \* the files whose .json was written
    main_pc,         \* "loop" | "parse" | "dump" | "exit" | "crashed"
    \* parse_axware_live_results
    headers, multirow, results, current_entry, current_runs,
    nrows,           \* Result rows whose iteration has begun
    ntds,            \* <td> cells of the Result rows begun so far
    ncells,          \* len(row_data) of the current row
    first_text,      \* row_data[0].text of the current row
    col,             \* position of the zip iterator in the current row
    header, raw_value, entry, runs,
    pc,              \* "idle" | "open" | "rows" | "zip" | "returned" | "raised"
    exc              \* the exception that ended the parse

vars == <<raw_value_arg, pt_result, pt_pc, nfiles, fidx, written, main_pc,
          headers, multirow, results, current_entry, current_runs, nrows,
          ntds, ncells, first_text, col, header, raw_value, entry, runs, pc, exc>>

timeVars == <<raw_value_arg, pt_result, pt_pc>>
mainVars == <<nfiles, fidx, written, main_pc>>
parseVars == <<headers, multirow, results, current_entry, current_runs, nrows,
               ntds, ncells, first_text, col, header, raw_value, entry, runs, pc, exc>>

-----------------------------------------------------------------------------
(* Python values *)

None == [none |-> TRUE]
PyStr(s) == [str |-> s]
PyInt(i) == [int |-> i]
PyFloat(m, e) == [float |-> <<m, e>>]
PyTuple(t) == [tuple |-> t]
PyList(l) == [list |-> l]
PyDict(d) == [dict |-> d]
Raised(kind) == [exc |-> kind]

IsNone(v) == "none" \in DOMAIN v
IsExc(v) == "exc" \in DOMAIN v
IsDict(v) == "dict" \in DOMAIN v

EmptyDict == [k \in {} |-> None]

(* d[k] = v *)
DictSet(d, k, v) == [x \in (DOMAIN d) \cup {k} |-> IF x = k THEN v ELSE d[x]]

-----------------------------------------------------------------------------
(* Text *)

Digits == {"0", "1", "2", "3", "4", "5", "6", "7", "8", "9"}
Space == {" ", "\t", "\n"}

DigitVal(c) ==
    CASE c = "0" -> 0 [] c = "1" -> 1 [] c = "2" -> 2 [] c = "3" -> 3
      [] c = "4" -> 4 [] c = "5" -> 5 [] c = "6" -> 6 [] c = "7" -> 7
      [] c = "8" -> 8 [] c = "9" -> 9

Sub(s, i, j) == IF i > j THEN <<>> ELSE SubSeq(s, i, j)

AllIn(s, S) == \A i \in 1..Len(s) : s[i] \in S

(* the number of leading characters of s that are in S *)
RECURSIVE Span(_, _)
Span(s, S) == IF s # <<>> /\ Head(s) \in S THEN 1 + Span(Tail(s), S) ELSE 0

(* str.strip() *)
RECURSIVE RStrip(_)
RStrip(s) == IF s # <<>> /\ s[Len(s)] \in Space THEN RStrip(Sub(s, 1, Len(s) - 1)) ELSE s

Strip(s) == RStrip(Sub(s, Span(s, Space) + 1, Len(s)))

(* str.replace(c, "") *)
Remove(s, c) == SelectSeq(s, LAMBDA x : x # c)

(* sub in s *)
Contains(s, sub) ==
    \E i \in 1..(Len(s) - Len(sub) + 1) : Sub(s, i, i + Len(sub) - 1) = sub

(* the value of a run of decimal digits *)
RECURSIVE Decimal(_)
Decimal(s) == IF s = <<>> THEN 0 ELSE 10 * Decimal(Sub(s, 1, Len(s) - 1)) + DigitVal(s[Len(s)])

(* int(s): surrounding whitespace, one optional sign, then digits, single   *)
(* underscores allowed between digits; anything else is a ValueError.       *)
IsIntBody(body) ==
    /\ body # <<>>
    /\ AllIn(body, Digits \cup {"_"})
    /\ body[1] # "_" /\ body[Len(body)] # "_"
    /\ ~Contains(body, <<"_", "_">>)

IntOfBody(body, sign) ==
    IF IsIntBody(body) THEN PyInt(sign * Decimal(Remove(body, "_")))
    ELSE Raised("ValueError")

IntOfStripped(t) ==
    IF t # <<>> /\ t[1] = "-" THEN IntOfBody(Tail(t), -1)
    ELSE IF t # <<>> /\ t[1] = "+" THEN IntOfBody(Tail(t), 1)
    ELSE IntOfBody(t, 1)

PyIntOf(s) == IntOfStripped(Strip(s))

RECURSIVE StripZeros(_)
StripZeros(s) == IF s # <<>> /\ s[Len(s)] = "0" THEN StripZeros(Sub(s, 1, Len(s) - 1)) ELSE s

(* float("<whole>.<frac>"): the number whole.frac, as mantissa and number   *)
(* of decimals with no trailing zero decimal.                               *)
PyFloatOf(whole, frac) ==
    PyFloat(Decimal(whole \o StripZeros(frac)), Len(StripZeros(frac)))

-----------------------------------------------------------------------------
(* _re_time = ^\s*(?P<raw_time>\d+\.\d+)(\+(?P<penalty>.+?))?\s*$          *)
(* The match object as [whole, frac, penalty], penalty None when the group *)
(* took no part; None when the pattern does not match.                     *)

(* .+? before \s*$ : the lengths a penalty may have in rest, which starts  *)
(* with "+": one character or more, none of them a newline, and only       *)
(* whitespace after it.  The lazy quantifier takes the least.              *)
PenaltyLens(rest) ==
    {k \in 1..(Len(rest) - 1) :
        /\ \A i \in 2..(k + 1) : rest[i] # "\n"
        /\ AllIn(Sub(rest, k + 2, Len(rest)), Space)}

Least(S) == CHOOSE k \in S : \A j \in S : k <= j

(* (\+(?P<penalty>.+?))?\s*$ on what follows the raw time *)
ReTimeSuffix(whole, frac, rest) ==
    IF rest # <<>> /\ rest[1] = "+" /\ PenaltyLens(rest) # {}
      THEN [whole |-> whole, frac |-> frac,
            penalty |-> PyStr(Sub(rest, 2, Least(PenaltyLens(rest)) + 1))]
    ELSE IF AllIn(rest, Space)
      THEN [whole |-> whole, frac |-> frac, penalty |-> None]
    ELSE None

(* \d+ after the point: f digits of s3 *)
ReTimeFrac(whole, s3, f) ==
    IF f = 0 THEN None
    ELSE ReTimeSuffix(whole, Sub(s3, 1, f), Sub(s3, f + 1, Len(s3)))

(* \d+\. : w digits of s1, then the point *)
ReTimeWhole(s1, w) ==
    IF w = 0 \/ Len(s1) = w \/ s1[w + 1] # "." THEN None
    ELSE ReTimeFrac(Sub(s1, 1, w), Sub(s1, w + 2, Len(s1)),
                    Span(Sub(s1, w + 2, Len(s1)), Digits))

(* ^\s* : the greedy runs are the only ones that can lead to a match, as   *)
(* what must follow each is not in its class                               *)
ReTimeLead(s1) == ReTimeWhole(s1, Span(s1, Digits))

ReTimeMatch(s) == ReTimeLead(Sub(s, Span(s, Space) + 1, Len(s)))

DNF == <<"d", "n", "f">>
DSQ == <<"d", "s", "q">>
OFF == <<"o", "f", "f">>
OUT == <<"o", "u", "t">>
DIRTY == <<"d", "i", "r", "t", "y">>
CLEAN == <<"c", "l", "e", "a", "n">>

(* line 29: (raw_time, int(penalty), "dirty"), or what int raised *)
Cones(raw_time, n) ==
    IF IsExc(n) THEN n ELSE PyTuple(<<raw_time, n, PyStr(DIRTY)>>)

(* lines 24-32 *)
TimeResult(raw_time, penalty) ==
    IF ~IsNone(penalty) /\ penalty.str \in {DNF, DSQ, OFF, OUT}
      THEN PyTuple(<<raw_time, PyInt(0), penalty>>)
    ELSE IF ~IsNone(penalty) /\ penalty.str # <<>>
      THEN Cones(raw_time, PyIntOf(penalty.str))
    ELSE PyTuple(<<raw_time, PyInt(0), PyStr(CLEAN)>>)

(* lines 20-35 with the match made *)
TimeOfMatch(match) ==
    IF IsNone(match) THEN None
    ELSE TimeResult(PyFloatOf(match.whole, match.frac), match.penalty)

(* The try block of parse_time: the value returned, or the exception       *)
(* raised inside it.                                                       *)
ParseTimeTry(rv) ==
    IF IsNone(rv) THEN None ELSE TimeOfMatch(ReTimeMatch(rv.str))

(* parse_time without its except clause *)
CaughtNothing(r) == r

(* lines 37-39: except Exception -> log, return None *)
Caught(r) == IF IsExc(r) THEN None ELSE r

parse_time(rv) == Caught(ParseTimeTry(rv))

-----------------------------------------------------------------------------
(* Direct calls of parse_time.  The argument is None or a string put       *)
(* together from leading whitespace, a raw time, a "+" suffix and trailing *)
(* whitespace.                                                             *)

LeadTexts == {<<>>, <<" ">>}
TrailTexts == {<<>>, <<" ">>, <<"\n">>}
RawTimeTexts ==
    {<<"1", ".", "5">>, <<"0", ".", "0">>, <<"1", "2", ".", "2", "5">>,
     <<"0", "1", ".", "5", "0">>, <<"7">>, <<"7", ".">>, <<".", "5">>,
     <<"-", "1", ".", "5">>, <<"a", "b", "c">>, <<>>}
SuffixTexts ==
    {<<>>, <<"+">>, <<"+", "0">>, <<"+", "1">>, <<"+", "2">>, <<"+", "1", "0">>,
     <<"+", "0", "0", "7">>, <<"+", "-", "1">>, <<"+", "+", "2">>, <<"+", " ", "2">>,
     <<"+", "1", "_", "0">>, <<"+", "1", " ", "2">>, <<"+", "2", ".", "0">>,
     <<"+", "x">>, <<"+", "d", "n">>, <<"+", "D", "N", "F">>,
     <<"+", "d", "n", "f", "1">>, <<"+", "1", "d", "n", "f">>,
     <<"+", "\n", "1">>,
     <<"+">> \o DNF, <<"+">> \o DSQ, <<"+">> \o OFF, <<"+">> \o OUT}

TimeArgs ==
    {None} \cup
    {PyStr(l \o r \o x \o t) : l \in LeadTexts, r \in RawTimeTexts,
                               x \in SuffixTexts, t \in TrailTexts}

ParserIdle ==
    /\ headers = <<>> /\ multirow = FALSE /\ results = <<>>
    /\ current_entry = None /\ current_runs = None
    /\ nrows = 0 /\ ntds = 0 /\ ncells = 0 /\ first_text = <<>> /\ col = 0
    /\ header = <<>> /\ raw_value = None /\ entry = EmptyDict /\ runs = <<>>
    /\ pc = "idle" /\ exc = None

InitTime ==
    /\ raw_value_arg \in TimeArgs
    /\ pt_result = None
    /\ pt_pc = "call"
    /\ nfiles = 0 /\ fidx = 0 /\ written = {} /\ main_pc = "exit"
    /\ ParserIdle

(* parse_time(raw_value) *)
CallParseTime ==
    /\ pt_pc = "call"
    /\ pt_result' = parse_time(raw_value_arg)
    /\ pt_pc' = "done"
    /\ UNCHANGED <<raw_value_arg, mainVars, parseVars>>

NextTime == CallParseTime

SpecTime == InitTime /\ [][NextTime]_vars

-----------------------------------------------------------------------------
(* Header names *)

H_Pos == <<"P", "o", "s">>
H_PaxTime == <<"P", "a", "x", " ", "T", "i", "m", "e">>
H_Total == <<"T", "o", "t", "a", "l">>
H_Diff == <<"D", "i", "f", "f", ".">>
H_Driver == <<"D", "r", "i", "v", "e", "r">>
H_Run1 == <<"R", "u", "n", " ", "1">>
H_Run2 == <<"R", "u", "n", " ", "2">>
H_Run1dd == <<"R", "u", "n", " ", "1", ".", ".">>
H_Run2dd == <<"R", "u", "n", " ", "2", ".", ".">>
H_Run3dd == <<"R", "u", "n", " ", "3", ".", ".">>
H_BestRun == <<"B", "e", "s", "t", " ", "R", "u", "n">>
K_Runs == <<"R", "u", "n", "s">>
S_Run == <<"R", "u", "n">>
S_DotDot == <<".", ".">>

(* _re_run = ^\s*Run\s*(?P<num>\d+)(\s*..)?\s*$ : whether it matches h.     *)
(* Each "." is any character but a newline.                                *)

(* (\s*..)?\s*$ on r, what follows the digits taken as num *)
ReRunTail(r) ==
    \/ AllIn(r, Space)
    \/ \E e \in 0..Span(r, Space) :
          /\ Len(r) >= e + 2
          /\ r[e + 1] # "\n" /\ r[e + 2] # "\n"
          /\ AllIn(Sub(r, e + 3, Len(r)), Space)

(* (?P<num>\d+) on h3: any number of its leading digits, one at least *)
ReRunNum(h3) ==
    \E d \in 1..Span(h3, Digits) : ReRunTail(Sub(h3, d + 1, Len(h3)))

(* Run\s* on h1 *)
ReRunWord(h1) ==
    /\ Sub(h1, 1, 3) = S_Run
    /\ ReRunNum(Sub(h1, 4 + Span(Sub(h1, 4, Len(h1)), Space), Len(h1)))

ReRunMatches(h) == ReRunWord(Sub(h, Span(h, Space) + 1, Len(h)))

(* lines 59-66 *)
IsMultirow(hs) ==
    \E i \in 1..Len(hs) : Contains(hs[i], S_Run) /\ Contains(hs[i], S_DotDot)

-----------------------------------------------------------------------------
(* The documents.  A document is read as the parse goes: its header row    *)
(* when the parse starts, each Result row's number of <td> cells when the  *)
(* row's iteration starts, each cell when zip reaches it.                  *)

MaxRows == 3
MaxCells == 9
MaxFiles == 2

Layouts ==
    {<<H_Pos, H_PaxTime, H_Run1, H_Run2>>,
     <<H_Driver, H_BestRun>>,
     <<H_Driver, H_Total, H_Run1dd, H_Run2dd, H_Run3dd>>,
     <<H_Total, H_Pos, H_Run1dd>>,
     <<H_Diff, H_Total, H_Run1dd>>,
     <<H_Driver, H_Run1dd>>,
     <<H_Run1dd, H_Run2dd>>}

T_Time == <<"1", ".", "5">>
T_Cone == <<"2", ".", "0", "+", "1">>
T_Off == <<"3", ".", "2", "5", "+", "o", "f", "f">>
T_Gap == <<"-", "2", ".", "3", "4", "5">>

(* the text a cell under header h may hold *)
CellTexts(h) ==
    IF h \in {H_Run1, H_Run1dd, H_BestRun} THEN {T_Time, <<"x">>, <<>>}
    ELSE IF h \in {H_Run2, H_Run2dd} THEN {T_Cone, <<"x">>}
    ELSE IF h = H_Run3dd THEN {T_Off, <<>>}
    ELSE IF h = H_PaxTime THEN {T_Cone, <<"x">>}
    ELSE IF h = H_Pos THEN {<<" ", "3", " ">>, <<"4", "T">>, <<"T">>, <<"a", "b", "c">>, <<>>}
    ELSE IF h = H_Driver THEN {<<"1">>, <<" ">>, <<>>}
    ELSE {T_Gap, <<>>}

(* a <td>: its text and whether it carries a valign attribute *)
Cells(h) == {[text |-> t, valign |-> v] : t \in CellTexts(h), v \in BOOLEAN}

-----------------------------------------------------------------------------
(* parse_axware_live_results *)

Raise(kind) ==
    /\ pc' = "raised"
    /\ exc' = Raised(kind)

(* lines 45-73: the document is opened and its header row read *)
OpenDocument ==
    /\ main_pc = "parse" /\ pc = "open"
    /\ \E hs \in Layouts :
          /\ headers' = hs
          /\ multirow' = IsMultirow(hs)
    /\ results' = <<>>
    /\ current_entry' = None
    /\ current_runs' = None
    /\ pc' = "rows"
    /\ UNCHANGED <<nrows, ntds, ncells, first_text, col, header, raw_value, entry, runs, exc>>
    /\ UNCHANGED <<timeVars, mainVars>>

(* lines 45-56 on a document with no table, no row or no header text *)
OpenFails ==
    /\ main_pc = "parse" /\ pc = "open"
    /\ \E kind \in {"IndexError", "AttributeError"} : Raise(kind)
    /\ UNCHANGED <<headers, multirow, results, current_entry, current_runs, nrows,
                   ntds, ncells, first_text, col, header, raw_value, entry, runs>>
    /\ UNCHANGED <<timeVars, mainVars>>

(* lines 75-78: the next Result row *)
BeginRow ==
    /\ pc = "rows"
    /\ nrows < MaxRows
    /\ nrows' = nrows + 1
    /\ \E n \in 0..Len(headers) :
          /\ ntds + n <= MaxCells
          /\ ncells' = n
          /\ ntds' = ntds + n
    /\ first_text' = <<>>
    /\ col' = 0
    /\ entry' = EmptyDict
    /\ runs' = <<>>
    /\ pc' = "zip"
    /\ UNCHANGED <<headers, multirow, results, current_entry, current_runs,
                   header, raw_value, exc>>
    /\ UNCHANGED <<timeVars, mainVars>>

(* lines 87-88: value[0] of a parsed Pax Time *)
RawTimeOf(value) == IF IsNone(value) THEN None ELSE value.tuple[1]

(* a Pos that is no integer becomes None instead of raising *)
CellValueLenientPos(h, text) ==
    IF Contains(h, S_Run) THEN parse_time(PyStr(text))
    ELSE IF h = H_PaxTime THEN RawTimeOf(parse_time(PyStr(text)))
    ELSE IF h = H_Pos THEN Caught(PyIntOf(Remove(text, "T")))
    ELSE PyStr(text)

(* lines 81-96: the value of a cell, or the exception raised *)
CellValue(h, text) ==
    IF Contains(h, S_Run) THEN parse_time(PyStr(text))
    ELSE IF h = H_PaxTime THEN RawTimeOf(parse_time(PyStr(text)))
    ELSE IF h = H_Pos THEN PyIntOf(Remove(text, "T"))
    ELSE PyStr(text)

(* lines 104-109: whether a run cell's value is appended *)
RunKept(cell, value) == cell.valign /\ ~IsNone(value)

(* lines 98-115: what the loop body does with the value of cell c under h *)
StoreValue(h, c, value) ==
    IF IsExc(value)
      THEN /\ Raise(value.exc)
           /\ UNCHANGED <<entry, runs>>
    ELSE IF Contains(h, S_Run)
      THEN IF ~RunKept(c, value)
             THEN UNCHANGED <<entry, runs, pc, exc>>
           ELSE IF ~ReRunMatches(h)
             THEN /\ Raise("AttributeError")
                  /\ UNCHANGED <<entry, runs>>
           ELSE /\ runs' = Append(runs, value)
                /\ UNCHANGED <<entry, pc, exc>>
    ELSE /\ entry' = DictSet(entry, h, value)
         /\ UNCHANGED <<runs, pc, exc>>

(* lines 79-115: zip(headers, row_data) gives its next pair and the loop   *)
(* body runs on it                                                         *)
ParseCell ==
    /\ pc = "zip"
    /\ col < ncells
    /\ col' = col + 1
    /\ header' = headers[col + 1]
    /\ \E c \in Cells(headers[col + 1]) :
          /\ raw_value' = c
          /\ first_text' = IF col = 0 THEN c.text ELSE first_text
          /\ StoreValue(headers[col + 1], c, CellValue(headers[col + 1], Strip(c.text)))
    /\ UNCHANGED <<headers, multirow, results, current_entry, current_runs, nrows,
                   ntds, ncells>>
    /\ UNCHANGED <<timeVars, mainVars>>

(* `if current_entry:` *)
Truthy(v) == ~IsNone(v) /\ DOMAIN v.dict # {}

(* lines 121-124 and 146-147: current_entry["Runs"] = current_runs;        *)
(* results.append(current_entry)                                           *)
Flushed(res, ce, cr) == Append(res, PyDict(DictSet(ce.dict, K_Runs, cr)))

(* the row's locals are rebound before they are read again *)
RowDone ==
    /\ ncells' = 0 /\ first_text' = <<>> /\ col' = 0
    /\ header' = <<>> /\ raw_value' = None /\ entry' = EmptyDict /\ runs' = <<>>

(* lines 117-128: zip is exhausted, on a row whose first cell has text *)
StitchNew ==
    /\ pc = "zip" /\ col = ncells /\ multirow
    /\ ncells > 0 /\ first_text # <<>>
    /\ results' = IF Truthy(current_entry)
                    THEN Flushed(results, current_entry, current_runs)
                    ELSE results
    /\ current_entry' = PyDict(entry)
    /\ current_runs' = PyList(runs)
    /\ pc' = "rows"
    /\ RowDone
    /\ UNCHANGED <<headers, multirow, nrows, ntds, exc>>
    /\ UNCHANGED <<timeVars, mainVars>>

(* a continuation row that sets Diff. whether or not the entry has one *)
StitchContinuationOverwritesDiff ==
    /\ pc = "zip" /\ col = ncells /\ multirow
    /\ ncells > 0 /\ first_text = <<>>
    /\ IF IsNone(current_entry)
         THEN /\ Raise("TypeError")
              /\ UNCHANGED <<current_entry, current_runs, ncells, first_text, col,
                             header, raw_value, entry, runs>>
       ELSE IF H_Total \notin DOMAIN entry
         THEN /\ Raise("KeyError")
              /\ UNCHANGED <<current_entry, current_runs, ncells, first_text, col,
                             header, raw_value, entry, runs>>
       ELSE /\ current_entry' = PyDict(DictSet(current_entry.dict, H_Diff, entry[H_Total]))
            /\ current_runs' = PyList(current_runs.list \o runs)
            /\ pc' = "rows"
            /\ RowDone
            /\ UNCHANGED exc
    /\ UNCHANGED <<headers, multirow, results, nrows, ntds>>
    /\ UNCHANGED <<timeVars, mainVars>>

(* a continuation row that reads Total with a default instead of entry["Total"] *)
StitchContinuationSkipsMissingTotal ==
    /\ pc = "zip" /\ col = ncells /\ multirow
    /\ ncells > 0 /\ first_text = <<>>
    /\ IF IsNone(current_entry)
         THEN /\ Raise("TypeError")
              /\ UNCHANGED <<current_entry, current_runs, ncells, first_text, col,
                             header, raw_value, entry, runs>>
       ELSE /\ current_entry' =
                  IF H_Diff \notin DOMAIN current_entry.dict /\ H_Total \in DOMAIN entry
                    THEN PyDict(DictSet(current_entry.dict, H_Diff, entry[H_Total]))
                    ELSE current_entry
            /\ current_runs' = PyList(current_runs.list \o runs)
            /\ pc' = "rows"
            /\ RowDone
            /\ UNCHANGED exc
    /\ UNCHANGED <<headers, multirow, results, nrows, ntds>>
    /\ UNCHANGED <<timeVars, mainVars>>

(* lines 130-138: zip is exhausted, on a row whose first cell has no text *)
StitchContinuation ==
    /\ pc = "zip" /\ col = ncells /\ multirow
    /\ ncells > 0 /\ first_text = <<>>
    /\ IF IsNone(current_entry)
         THEN /\ Raise("TypeError")
              /\ UNCHANGED <<current_entry, current_runs, ncells, first_text, col,
                             header, raw_value, entry, runs>>
       ELSE IF H_Diff \notin DOMAIN current_entry.dict /\ H_Total \notin DOMAIN entry
         THEN /\ Raise("KeyError")
              /\ UNCHANGED <<current_entry, current_runs, ncells, first_text, col,
                             header, raw_value, entry, runs>>
       ELSE /\ current_entry' =
                  IF H_Diff \notin DOMAIN current_entry.dict
                    THEN PyDict(DictSet(current_entry.dict, H_Diff, entry[H_Total]))
                    ELSE current_entry
            /\ current_runs' = PyList(current_runs.list \o runs)
            /\ pc' = "rows"
            /\ RowDone
            /\ UNCHANGED exc
    /\ UNCHANGED <<headers, multirow, results, nrows, ntds>>
    /\ UNCHANGED <<timeVars, mainVars>>

(* line 119: zip is exhausted, on a row with no <td>: row_data[0] *)
StitchNoCell ==
    /\ pc = "zip" /\ col = ncells /\ multirow
    /\ ncells = 0
    /\ Raise("IndexError")
    /\ UNCHANGED <<headers, multirow, results, current_entry, current_runs, nrows,
                   ntds, ncells, first_text, col, header, raw_value, entry, runs>>
    /\ UNCHANGED <<timeVars, mainVars>>

(* lines 140-142: zip is exhausted, in single-row layout *)
StitchSingle ==
    /\ pc = "zip" /\ col = ncells /\ ~multirow
    /\ results' = Append(results, PyDict(DictSet(entry, K_Runs, current_runs)))
    /\ pc' = "rows"
    /\ RowDone
    /\ UNCHANGED <<headers, multirow, current_entry, current_runs, nrows, ntds, exc>>
    /\ UNCHANGED <<timeVars, mainVars>>

(* a final flush guarded by `if multirow and current_entry` *)
ReturnGuardedFlush ==
    /\ pc = "rows"
    /\ results' = IF multirow /\ ~IsNone(current_entry)
                    THEN Flushed(results, current_entry, current_runs)
                    ELSE results
    /\ pc' = "returned"
    /\ UNCHANGED exc
    /\ UNCHANGED <<headers, multirow, current_entry, current_runs, nrows,
                   ntds, ncells, first_text, col, header, raw_value, entry, runs>>
    /\ UNCHANGED <<timeVars, mainVars>>

(* lines 144-149: no Result row is left *)
Return ==
    /\ pc = "rows"
    /\ IF multirow /\ IsNone(current_entry)
         THEN /\ Raise("TypeError")
              /\ UNCHANGED results
       ELSE /\ results' = IF multirow
                            THEN Flushed(results, current_entry, current_runs)
                            ELSE results
            /\ pc' = "returned"
            /\ UNCHANGED exc
    /\ UNCHANGED <<headers, multirow, current_entry, current_runs, nrows,
                   ntds, ncells, first_text, col, header, raw_value, entry, runs>>
    /\ UNCHANGED <<timeVars, mainVars>>

-----------------------------------------------------------------------------
(* __main__ *)

(* an invocation on one file *)
Init ==
    /\ raw_value_arg = None /\ pt_result = None /\ pt_pc = "idle"
    /\ nfiles = 1
    /\ fidx = 0
    /\ written = {}
    /\ main_pc = "loop"
    /\ ParserIdle

(* an invocation on any number of files *)
InitBatch ==
    /\ raw_value_arg = None /\ pt_result = None /\ pt_pc = "idle"
    /\ nfiles \in 0..MaxFiles
    /\ fidx = 0
    /\ written = {}
    /\ main_pc = "loop"
    /\ ParserIdle

(* lines 160-162: the next fpath of args.file, or the end of the loop *)
MainNext ==
    /\ main_pc = "loop"
    /\ IF fidx < nfiles
         THEN /\ fidx' = fidx + 1
              /\ main_pc' = "parse"
              /\ pc' = "open"
         ELSE /\ main_pc' = "exit"
              /\ UNCHANGED <<fidx, pc>>
    /\ UNCHANGED <<nfiles, written>>
    /\ UNCHANGED <<headers, multirow, results, current_entry, current_runs, nrows,
                   ntds, ncells, first_text, col, header, raw_value, entry, runs, exc>>
    /\ UNCHANGED timeVars

(* lines 164-167: the call returned; its results are written *)
Dump ==
    /\ main_pc = "parse" /\ pc = "returned"
    /\ written' = written \cup {fidx}
    /\ main_pc' = "loop"
    /\ headers' = <<>> /\ multirow' = FALSE /\ results' = <<>>
    /\ current_entry' = None /\ current_runs' = None /\ nrows' = 0 /\ ntds' = 0
    /\ pc' = "idle"
    /\ UNCHANGED <<nfiles, fidx>>
    /\ UNCHANGED <<ncells, first_text, col, header, raw_value, entry, runs, exc>>
    /\ UNCHANGED timeVars

(* line 162: nothing catches what the call raised *)
Uncaught ==
    /\ main_pc = "parse" /\ pc = "raised"
    /\ main_pc' = "crashed"
    /\ UNCHANGED <<nfiles, fidx, written>>
    /\ UNCHANGED parseVars
    /\ UNCHANGED timeVars

Next ==
    \/ MainNext
    \/ OpenDocument
    \/ OpenFails
    \/ BeginRow
    \/ ParseCell
    \/ StitchNew
    \/ StitchContinuation
    \/ StitchNoCell
    \/ StitchSingle
    \/ Return
    \/ Dump
    \/ Uncaught

Spec == Init /\ [][Next]_vars

SpecBatch == InitBatch /\ [][Next]_vars

-----------------------------------------------------------------------------
(* The steps the properties below are about *)

Last(q) == q[Len(q)]

(* the zip loop is about to take the cell under header h *)
AtCell(h) == pc = "zip" /\ col < ncells /\ headers[col + 1] = h

(* the row's cells are done and the row assembly is about to run *)
AtRowEnd == pc = "zip" /\ col = ncells

AtNewEntryRow == AtRowEnd /\ multirow /\ ncells > 0 /\ first_text # <<>>
AtContinuationRow == AtRowEnd /\ multirow /\ ncells > 0 /\ first_text = <<>>

HasRuns(e) == K_Runs \in DOMAIN e.dict /\ "list" \in DOMAIN e.dict[K_Runs]

-----------------------------------------------------------------------------
(* C1: in single-row layout every Result row adds one entry, in row order, *)
(* whose Runs is the sequence of the runs kept from that row's cells.      *)
C1_SingleRowRuns ==
    [][(AtRowEnd /\ ~multirow) =>
          /\ pc' = "rows"
          /\ Len(results') = nrows
          /\ SubSeq(results', 1, Len(results)) = results
          /\ HasRuns(Last(results'))
          /\ Last(results').dict[K_Runs].list = runs]_vars

(* C2: in multi-row layout a new-entry row flushes the entry that is open  *)
(* with the runs gathered for it and opens an entry with its own runs, a   *)
(* continuation row appends its runs to the open entry's, and the entry    *)
(* open after the last row is flushed: one entry per new-entry row.        *)
C2_MultiRowStitching ==
    [][/\ (AtNewEntryRow /\ pc' = "rows") =>
            /\ results' = IF IsNone(current_entry) THEN results
                          ELSE Flushed(results, current_entry, current_runs)
            /\ current_runs' = PyList(runs)
       /\ (AtContinuationRow /\ pc' = "rows") =>
            /\ results' = results
            /\ current_runs' = PyList(current_runs.list \o runs)
       /\ (pc = "rows" /\ multirow /\ pc' = "returned") =>
            results' = Flushed(results, current_entry, current_runs)]_vars

(* C3: a continuation row processed while an entry is open sets the        *)
(* entry's Diff. to the row's Total when the entry has none, leaves Diff.   *)
(* as it is when the entry has one, changes no other field and appends the *)
(* row's runs to the entry's; the entry returned at the end carries that   *)
(* Diff. and those runs.                                                   *)
C3_ContinuationDiff ==
    [][/\ (AtContinuationRow /\ ~IsNone(current_entry) /\ pc' = "rows") =>
          /\ DOMAIN current_entry'.dict = DOMAIN current_entry.dict \cup {H_Diff}
          /\ \A k \in DOMAIN current_entry.dict :
                current_entry'.dict[k] = current_entry.dict[k]
          /\ H_Diff \notin DOMAIN current_entry.dict =>
                current_entry'.dict[H_Diff] = entry[H_Total]
          /\ current_runs' = PyList(current_runs.list \o runs)
       /\ (pc = "rows" /\ multirow /\ pc' = "returned") =>
          /\ Last(results').dict[K_Runs] = current_runs
          /\ \A k \in DOMAIN current_entry.dict \ {K_Runs} :
                Last(results').dict[k] = current_entry.dict[k]]_vars

(* a primary row with 3 valid runs and a continuation row with Total       *)
(* -2.345 and 2 valid runs were read, and the one entry was returned       *)
C3_Witness ==
    /\ pc = "returned" /\ multirow /\ nrows = 2
    /\ Len(results) = 1
    /\ H_Diff \in DOMAIN results[1].dict
    /\ results[1].dict[H_Diff] = PyStr(T_Gap)
    /\ results[1].dict[K_Runs] =
          PyList(<<parse_time(PyStr(T_Time)), parse_time(PyStr(T_Cone)),
                   parse_time(PyStr(T_Off)), parse_time(PyStr(T_Time)),
                   parse_time(PyStr(T_Cone))>>)

(* C4: a cell under a header that contains Run is appended to the row's    *)
(* runs exactly when it carries valign and parse_time of its trimmed text  *)
(* is not None; otherwise it is skipped; nothing is stored under the       *)
(* header; the step never raises.                                          *)
C4_RunCell ==
    [][(pc = "zip" /\ col < ncells /\ Contains(headers[col + 1], S_Run)) =>
          /\ pc' # "raised"
          /\ entry' = entry
          /\ runs' = IF /\ raw_value'.valign
                        /\ ~IsNone(parse_time(PyStr(Strip(raw_value'.text))))
                       THEN Append(runs, parse_time(PyStr(Strip(raw_value'.text))))
                       ELSE runs]_vars

-----------------------------------------------------------------------------
(* What parse_time is to return, written out case by case.  A number is    *)
(* digits, a point, digits.                                                *)

NumberCases ==
    {[text |-> <<"1", ".", "5">>, value |-> PyFloat(15, 1)],
     [text |-> <<"0", ".", "0">>, value |-> PyFloat(0, 0)],
     [text |-> <<"1", "2", ".", "2", "5">>, value |-> PyFloat(1225, 2)],
     [text |-> <<"0", "1", ".", "5", "0">>, value |-> PyFloat(15, 1)]}
ConeCases ==
    {[text |-> <<"0">>, count |-> 0], [text |-> <<"1">>, count |-> 1],
     [text |-> <<"2">>, count |-> 2], [text |-> <<"1", "0">>, count |-> 10],
     [text |-> <<"0", "0", "7">>, count |-> 7]}
OverrideTokens == {DNF, DSQ, OFF, OUT}
NotNumbers == {<<"a", "b", "c">>, <<>>}
NotInteger ==
    {<<"x">>, <<"d", "n">>, <<"D", "N", "F">>, <<"d", "n", "f", "1">>,
     <<"1", "d", "n", "f">>, <<"2", ".", "0">>, <<"1", " ", "2">>}

(* C5: parse_time never raises; a number alone gives (number, 0, clean); a *)
(* number, "+" and a non-negative integer literal n give (number, n,       *)
(* dirty); a number, "+" and dnf, dsq, off or out give (number, 0, token); *)
(* None, the empty string, a raw time that is no number and a cone suffix  *)
(* that is no integer give None.                                           *)
C5_ParseTimeCases ==
    pt_pc = "done" =>
      /\ ~IsExc(pt_result)
      /\ raw_value_arg = None => pt_result = None
      /\ raw_value_arg = PyStr(<<>>) => pt_result = None
      /\ \A n \in NumberCases :
            /\ raw_value_arg = PyStr(n.text) =>
                  pt_result = PyTuple(<<n.value, PyInt(0), PyStr(CLEAN)>>)
            /\ \A c \in ConeCases :
                  raw_value_arg = PyStr(n.text \o <<"+">> \o c.text) =>
                     pt_result = PyTuple(<<n.value, PyInt(c.count), PyStr(DIRTY)>>)
            /\ \A t \in OverrideTokens :
                  raw_value_arg = PyStr(n.text \o <<"+">> \o t) =>
                     pt_result = PyTuple(<<n.value, PyInt(0), PyStr(t)>>)
            /\ \A x \in NotInteger :
                  raw_value_arg = PyStr(n.text \o <<"+">> \o x) => pt_result = None
      /\ \A b \in NotNumbers : \A x \in SuffixTexts :
            raw_value_arg = PyStr(b \o x) => pt_result = None

(* parse_time("12.25+10") returned (12.25, 10, dirty) *)
C5_Witness ==
    /\ pt_pc = "done"
    /\ raw_value_arg = PyStr(<<"1", "2", ".", "2", "5", "+", "1", "0">>)
    /\ pt_result = PyTuple(<<PyFloat(1225, 2), PyInt(10), PyStr(DIRTY)>>)

(* C6: in every RunResult that parse_time returns, penalty_count is not    *)
(* negative, is nonzero only with status dirty, and is 0 with status dnf,  *)
(* dsq, off or out.                                                        *)
C6_PenaltyCount ==
    (pt_pc = "done" /\ "tuple" \in DOMAIN pt_result) =>
      /\ pt_result.tuple[2].int >= 0
      /\ pt_result.tuple[2].int # 0 => pt_result.tuple[3] = PyStr(DIRTY)
      /\ pt_result.tuple[3].str \in OverrideTokens => pt_result.tuple[2].int = 0

-----------------------------------------------------------------------------
(* What the Pos cells of the documents hold, and the integer each is       *)
(* after its surrounding whitespace and every T are removed.               *)
PosIntegers ==
    {[text |-> <<" ", "3", " ">>, value |-> 3], [text |-> <<"4", "T">>, value |-> 4]}
PosNotIntegers == {<<"T">>, <<"a", "b", "c">>, <<>>}

(* C7: in either layout, a Pos cell whose text is no integer once trimmed  *)
(* and rid of every T makes the parse raise, and a parse that raised never *)
(* returns and its file is never written; a Pos cell whose text is an      *)
(* integer stores that integer under Pos.                                  *)
C7_PosCell ==
    [][/\ AtCell(H_Pos) =>
            /\ raw_value'.text \in PosNotIntegers => pc' = "raised"
            /\ \A p \in PosIntegers :
                  raw_value'.text = p.text =>
                     /\ pc' = "zip"
                     /\ H_Pos \in DOMAIN entry'
                     /\ entry'[H_Pos] = PyInt(p.value)
       /\ pc = "raised" =>
            /\ pc' = "raised"
            /\ written' = written
            /\ fidx \notin written]_vars

(* the second row's Pos was no integer: the parse raised with the first    *)
(* row's entry built, and nothing was written                              *)
C7_Witness ==
    /\ pc = "raised" /\ exc = Raised("ValueError")
    /\ header = H_Pos
    /\ nrows = 2 /\ results # <<>>
    /\ main_pc = "crashed" /\ written = {}

(* C8: when the parse of one file fails, every other file of the           *)
(* invocation is still parsed and written, and no output is written for    *)
(* the file that failed.                                                   *)
C8_FailureIsolated ==
    /\ main_pc = "crashed" => \A j \in (1..nfiles) \ {fidx} : j \in written
    /\ pc = "raised" => fidx \notin written

(* a continuation row, an open entry without Diff., no Total in the row *)
MissingTotal ==
    /\ AtContinuationRow
    /\ ~IsNone(current_entry)
    /\ H_Diff \notin DOMAIN current_entry.dict
    /\ H_Total \notin DOMAIN entry

(* C9 as claimed: with no Total in the continuation row, the open entry    *)
(* stays without Diff. and the parse goes on to the next row.              *)
C9_DiffSilentlyUnset ==
    [][MissingTotal =>
          /\ pc' = "rows"
          /\ H_Diff \notin DOMAIN current_entry'.dict]_vars

(* C9 as amended: with no Total in the continuation row, the step raises   *)
(* KeyError; nothing is added to the results and nothing is written.       *)
C9_MissingTotalRaises ==
    [][MissingTotal =>
          /\ pc' = "raised"
          /\ exc' = Raised("KeyError")
          /\ results' = results
          /\ written' = written]_vars

(* the header has no Total, an entry was open, and the parse raised *)
C9_Witness ==
    /\ pc = "raised" /\ exc = Raised("KeyError")
    /\ \A i \in 1..Len(headers) : headers[i] # H_Total
    /\ ~IsNone(current_entry)
    /\ main_pc = "crashed"

(* C10: in multi-row layout, a continuation row met with no entry open     *)
(* raises, the end of the rows met with no entry open raises, and so a     *)
(* parse that returns has opened an entry and returns it.                  *)
C10_NoEntryOpenRaises ==
    [][/\ (AtContinuationRow /\ IsNone(current_entry)) => pc' = "raised"
       /\ (pc = "rows" /\ multirow /\ IsNone(current_entry) /\ pc' # "zip") =>
             pc' = "raised"
       /\ (pc = "rows" /\ multirow /\ pc' = "returned") =>
             /\ ~IsNone(current_entry)
             /\ results' # <<>>]_vars

(* the first Result row was a continuation row, and the parse raised *)
C10_Witness ==
    /\ pc = "raised" /\ exc = Raised("TypeError")
    /\ multirow /\ nrows = 1 /\ ncells > 0 /\ first_text = <<>>
    /\ IsNone(current_entry)

=============================================================================
